---- MODULE Spec2Model ----
(***************************************************************************)
(* itunes-tag-sync (src/main.py): one run of main() over a collection of   *)
(* iTunes tracks.  The per-track loop skips non-file tracks, queues tracks *)
(* whose Location is empty, and for the others refreshes the library       *)
(* metadata (--update) and reconciles the library Rating with the POPM     *)
(* rating of the file's ID3 tag (--sync).  After the loop the queued       *)
(* tracks are deleted (--clean).  --dry suppresses every mutation.         *)
(***************************************************************************)
EXTENDS Integers, Sequences, FiniteSets, TLC

\* Number of tracks of the collection in specification Spec.
NumTracks == 2

\* Timestamps (file mtime, PlayedDate) are naive wall-clock values counted in
\* ticks; they range over 0..MaxTime.
MaxTime == 4

\* Ticks per second: the resolution of the modelled clock (2 = half seconds).
TicksPerSecond == 2

Times == 0 .. MaxTime

\* The wall-clock time of the run: no timestamp of the library lies after it.
Now == MaxTime

VARIABLES
    dry,            \* global dry (--dry)
    clean,          \* --clean
    update,         \* --update
    sync,           \* --sync
    force_rating,   \* --force-rating: "itunes", "tag" or "None"
    tracks,         \* the iTunes collection: tracks[k] is the Track tracks.Item(k)
    files,          \* the audio file at tracks[k].Location, as it is on disk
    faults,         \* which external call fails for track k, if any
    tracks0,        \* tracks as they were when the run started
    files0,         \* files as they were when the run started
    library,        \* indices of the tracks still in the collection
    pc,             \* position of main: "main", "loop", "clean", "done"
    i,              \* index of tqdm_tracks' for loop
    d,              \* index of the deletion loop in deleted_tracks
    deleted_tracks, \* main's deleted_tracks list (track indices)
    tags,           \* tags[k]: the in-memory tag of track k as sync_tag left it
    log,            \* log[k]: the records logged while track k was current
    calls           \* calls[k]: how often each mutating call was made on track k

vars == <<dry, clean, update, sync, force_rating, tracks, files, faults, tracks0,
          files0, library, pc, i, d, deleted_tracks, tags, log, calls>>

(***************************************************************************)
(* Data                                                                    *)
(***************************************************************************)

\* Track protocol: the fields main reads.  Artist stands for the displayed
\* metadata (artist, album, title, ...) that UpdateInfoFromFile re-reads.
MkTrack(kind, location, rating, played, artist) ==
    [Kind |-> kind, Location |-> location, Rating |-> rating,
     PlayedDate |-> played, Artist |-> artist]

\* The file behind a track: the POPM frames stored under the WMP key
\* (popularities: empty, or one rating byte), the file's mtime, and the
\* metadata of its tag.
MkFile(popularities, mtime, artist) ==
    [popularities |-> popularities, mtime |-> mtime, artist |-> artist]

\* External calls that can fail for one track:
\*   load    eyed3.load raises, or returns None (audio.tag raises)
\*   notag   the file has no ID3 tag: audio.tag is None
\*   refresh track.UpdateInfoFromFile() raises
\*   mtime   os.path.getmtime(track.Location) raises
\*   rating  the assignment track.Rating = ... raises
\*   save    tag.save() raises
Faults == {"none", "load", "notag", "refresh", "mtime", "rating", "save"}

\* A logged record.  Rating decisions carry the side written and the stars.
LogRec(msg, side, old, new) == [msg |-> msg, side |-> side, old |-> old, new |-> new]

NoCalls == [UpdateInfoFromFile |-> 0, Rating |-> 0, popm |-> 0, save |-> 0, Delete |-> 0]

NoTag == [loaded |-> FALSE, popularities |-> {}]

(***************************************************************************)
(* Rating codec                                                            *)
(***************************************************************************)

\* get_tag_rating: star rating of the POPM frame of the WMP key.
get_tag_rating(tag) ==
    IF tag.popularities = {} THEN 0
    ELSE LET rating == CHOOSE r \in tag.popularities : TRUE
         IN  IF rating <= 31 THEN 1
             ELSE IF rating <= 95 THEN 2
             ELSE IF rating <= 159 THEN 3
             ELSE IF rating <= 221 THEN 4
             ELSE 5

\* The lookup table [None, 1, 64, 128, 196, 255][rating] of set_tag_rating.
popm_rating(rating) == <<1, 64, 128, 196, 255>>[rating]

\* set_tag_rating: [raised, tag] after setting the tag's rating to `rating`.
set_tag_rating(tag, rating) ==
    IF rating = 0
    THEN [raised |-> FALSE, tag |-> [tag EXCEPT !.popularities = {}]]
    ELSE IF ~(1 <= rating /\ rating <= 5)
    THEN [raised |-> TRUE, tag |-> tag]
    ELSE [raised |-> FALSE,
          tag |-> [tag EXCEPT !.popularities = {popm_rating(rating)}]]

(***************************************************************************)
(* Processing of one track.  A "song" w is the state the try block of main *)
(* works on: the track, its file, the loaded tag, what was logged, the     *)
(* calls made, whether an exception is propagating (raised) and the value  *)
(* sync_rating returned (ret).                                             *)
(***************************************************************************)

Song(k) ==
    [track |-> tracks[k], file |-> files[k], fault |-> faults[k], tag |-> NoTag,
     log |-> log[k], calls |-> calls[k], raised |-> FALSE, ret |-> FALSE]

Logged(w, rec) == [w EXCEPT !.log = Append(@, rec)]

Raise(w) == [w EXCEPT !.raised = TRUE]

update_itunes_rating_undivided(w, msg, itunes_rating, tag_rating) ==
    LET w1 == Logged(w, LogRec(msg, "iTunes", itunes_rating, tag_rating))
    IN  IF dry THEN [w1 EXCEPT !.ret = FALSE]
        ELSE IF w.fault = "rating" THEN Raise(w1)
        ELSE [w1 EXCEPT !.track.Rating = tag_rating,
                        !.calls.Rating = @ + 1,
                        !.ret = FALSE]

\* sync_rating.update_itunes_rating
update_itunes_rating(w, msg, itunes_rating, tag_rating) ==
    LET w1 == Logged(w, LogRec(msg, "iTunes", itunes_rating, tag_rating))
    IN  IF dry THEN [w1 EXCEPT !.ret = FALSE]
        ELSE IF w.fault = "rating" THEN Raise(w1)
        ELSE [w1 EXCEPT !.track.Rating = tag_rating * 20,
                        !.calls.Rating = @ + 1,
                        !.ret = FALSE]

update_tag_rating_nodry(w, msg, itunes_rating, tag_rating) ==
    LET w1 == Logged(w, LogRec(msg, "tag", tag_rating, itunes_rating))
        s  == set_tag_rating(w.tag, itunes_rating)
    IN  IF s.raised THEN Raise(w1)
        ELSE [w1 EXCEPT !.tag = s.tag, !.calls.popm = @ + 1, !.ret = TRUE]

\* sync_rating.update_tag_rating
update_tag_rating(w, msg, itunes_rating, tag_rating) ==
    LET w1 == Logged(w, LogRec(msg, "tag", tag_rating, itunes_rating))
    IN  IF dry THEN [w1 EXCEPT !.ret = ~dry]
        ELSE LET s == set_tag_rating(w.tag, itunes_rating)
             IN  IF s.raised THEN Raise(w1)
                 ELSE [w1 EXCEPT !.tag = s.tag, !.calls.popm = @ + 1, !.ret = ~dry]

delta_reversed(tag_date, track_date) == track_date - tag_date

\* delta = tag_date - track_date
delta(tag_date, track_date) == tag_date - track_date

total_seconds_le_1(dt) == dt <= 1 * TicksPerSecond

\* delta.total_seconds() < 1
total_seconds_lt_1(dt) == dt < 1 * TicksPerSecond

conflict_timestamps_first(w, force, itunes_rating, tag_rating) ==
    IF w.fault = "mtime" THEN Raise(w)
    ELSE IF force = "itunes"
    THEN update_tag_rating(w, "FORCE-setting", itunes_rating, tag_rating)
    ELSE IF force = "tag"
    THEN update_itunes_rating(w, "FORCE-setting", itunes_rating, tag_rating)
    ELSE IF total_seconds_lt_1(delta(w.file.mtime, w.track.PlayedDate))
    THEN update_tag_rating(w, "updating older", itunes_rating, tag_rating)
    ELSE update_itunes_rating(w, "updating older", itunes_rating, tag_rating)

\* The branch of sync_rating for two non-zero, unequal ratings.
conflict(w, force, itunes_rating, tag_rating) ==
    IF force = "itunes"
    THEN update_tag_rating(w, "FORCE-setting", itunes_rating, tag_rating)
    ELSE IF force = "tag"
    THEN update_itunes_rating(w, "FORCE-setting", itunes_rating, tag_rating)
    ELSE IF w.fault = "mtime" THEN Raise(w)
    ELSE LET tag_date   == w.file.mtime
             track_date == w.track.PlayedDate
         IN  IF total_seconds_lt_1(delta(tag_date, track_date))
             THEN update_tag_rating(w, "updating older", itunes_rating, tag_rating)
             ELSE update_itunes_rating(w, "updating older", itunes_rating, tag_rating)

\* sync_rating(tag, track, force_rating); the result's ret is its return value.
sync_rating(w, force) ==
    IF w.track.Rating % 20 # 0 THEN Raise(w)
    ELSE IF w.fault = "notag" THEN Raise(w)
    ELSE LET itunes_rating == w.track.Rating \div 20
             tag_rating    == get_tag_rating(w.tag)
         IN  IF tag_rating # 0 /\ itunes_rating = 0
             THEN update_itunes_rating(w, "setting", itunes_rating, tag_rating)
             ELSE IF tag_rating = 0 /\ itunes_rating # 0
             THEN update_tag_rating(w, "setting", itunes_rating, tag_rating)
             ELSE IF tag_rating # 0 /\ itunes_rating # 0 /\ tag_rating # itunes_rating
             THEN conflict(w, force, itunes_rating, tag_rating)
             ELSE [w EXCEPT !.ret = FALSE]

\* tag.save(): the tag is written to the file, whose mtime becomes the time
\* of the run.
save(w) ==
    IF w.fault = "save"
    THEN Raise([w EXCEPT !.calls.save = @ + 1])
    ELSE [w EXCEPT !.calls.save = @ + 1,
                   !.file.popularities = w.tag.popularities,
                   !.file.mtime = Now]

should_save_always(dirty) == TRUE

\* if dirty and not dry
should_save(dirty) == dirty /\ ~dry

\* sync_tag(track, force_rating=...)
sync_tag(w, force) ==
    IF w.fault = "load"
    THEN Logged(w, LogRec("could not load file", "", 0, 0))
    ELSE LET w1 == [w EXCEPT !.tag = [loaded |-> TRUE,
                                     popularities |-> w.file.popularities]]
             r  == sync_rating(w1, force)
         IN  IF r.raised THEN r
             ELSE IF should_save(r.ret) THEN save(r)
             ELSE r

\* track.UpdateInfoFromFile(): iTunes re-reads the track's metadata from the file.
UpdateInfoFromFile(w) ==
    IF w.fault = "refresh"
    THEN Raise([w EXCEPT !.calls.UpdateInfoFromFile = @ + 1])
    ELSE [w EXCEPT !.calls.UpdateInfoFromFile = @ + 1,
                   !.track.Artist = w.file.artist]

should_update_if_differs(w) == update /\ ~dry /\ w.track.Artist # w.file.artist

\* if update and not dry
should_update(w) == update /\ ~dry

\* The try block of main's loop body, with its except clause.
try_block(w) ==
    LET u == IF should_update(w) THEN UpdateInfoFromFile(w) ELSE w
        s == IF u.raised THEN u
             ELSE IF sync THEN sync_tag(u, force_rating)
             ELSE u
    IN  IF s.raised THEN Logged(s, LogRec("exception", "", 0, 0)) ELSE s

after_try_uncaught(w) == IF w.raised THEN "done" ELSE "loop"

\* except Exception as exc: log.exception(...): the loop goes on.
after_try(w) == "loop"

after_loop_always_clean == "clean"

\* if clean: for track in deleted_tracks: ...
after_loop == IF clean THEN "clean" ELSE "done"

\* if not dry: track.Delete()
should_delete == ~dry

(***************************************************************************)
(* Initial states                                                          *)
(***************************************************************************)

Entry(track, file, fault) == [track |-> track, file |-> file, fault |-> fault]

\* A track that is not a file track (Kind != 1), e.g. a URL stream.
NonFileEntry == Entry(MkTrack(3, "", 0, 0, "a"), MkFile({}, 0, ""), "none")

\* A file track whose file is gone: iTunes reports an empty Location.
MissingEntry == Entry(MkTrack(1, "", 40, 0, "a"), MkFile({}, 0, ""), "none")

\* A file track with its file.
FileEntry(rating, played, tartist, popularities, mtime, fartist, fault) ==
    Entry(MkTrack(1, "file", rating, played, tartist),
          MkFile(popularities, mtime, fartist), fault)

\* Library ratings: the valid multiples of 20 and a half-star value.
Ratings == {0, 20, 30, 40, 100}

\* POPM contents: no frame, or one rating byte (band edges included).
Popularities == {{}, {31}, {64}, {160}, {255}}

\* Specification SpecTrack: a collection of one track, every rating, POPM
\* byte and timestamp; the file's mtime may be unreadable.
TrackEntries ==
    {NonFileEntry, MissingEntry} \cup
    {FileEntry(r, pd, "a", p, mt, "a", f) :
        r \in Ratings, pd \in Times, p \in Popularities, mt \in Times,
        f \in {"none", "mtime"}}

\* Specification Spec: NumTracks tracks, each one of these representatives.
RunEntries ==
    {NonFileEntry, MissingEntry,
     FileEntry(0, 0, "a", {196}, 0, "b", "none"),
     FileEntry(40, 0, "a", {}, 0, "a", "none"),
     FileEntry(40, MaxTime, "a", {196}, 0, "b", "none"),
     FileEntry(40, 0, "a", {196}, MaxTime, "a", "none"),
     FileEntry(60, 0, "a", {128}, 0, "a", "none"),
     FileEntry(30, 0, "a", {128}, 0, "b", "none"),
     FileEntry(40, 0, "a", {}, 0, "a", "load"),
     FileEntry(40, 0, "a", {}, 0, "a", "notag"),
     FileEntry(0, 0, "a", {196}, 0, "b", "refresh"),
     FileEntry(40, 0, "a", {196}, MaxTime, "a", "mtime"),
     FileEntry(0, 0, "a", {196}, 0, "a", "rating"),
     FileEntry(40, 0, "a", {}, 0, "b", "save")}

InitWith(lib) ==
    /\ dry \in BOOLEAN
    /\ clean \in BOOLEAN
    /\ update \in BOOLEAN
    /\ sync \in BOOLEAN
    /\ force_rating \in {"None", "itunes", "tag"}
    /\ tracks = [k \in 1 .. Len(lib) |-> lib[k].track]
    /\ files = [k \in 1 .. Len(lib) |-> lib[k].file]
    /\ faults = [k \in 1 .. Len(lib) |-> lib[k].fault]
    /\ tracks0 = tracks
    /\ files0 = files
    /\ library = 1 .. Len(lib)
    /\ pc = "main"
    /\ i = 1
    /\ d = 1
    /\ deleted_tracks = <<>>
    /\ tags = [k \in 1 .. Len(lib) |-> NoTag]
    /\ log = [k \in 1 .. Len(lib) |-> <<>>]
    /\ calls = [k \in 1 .. Len(lib) |-> NoCalls]

Init == \E lib \in [1 .. NumTracks -> RunEntries] : InitWith(lib)

InitTrack == \E e \in TrackEntries : InitWith(<<e>>)

(***************************************************************************)
(* main                                                                    *)
(***************************************************************************)

options == <<dry, clean, update, sync, force_rating>>
world == <<tracks, files, faults, tracks0, files0, library, tags, log, calls>>

\* if not update and not sync and not clean: return
EarlyReturn ==
    /\ pc = "main"
    /\ ~update /\ ~sync /\ ~clean
    /\ pc' = "done"
    /\ UNCHANGED <<options, world, i, d, deleted_tracks>>

EnterLoop ==
    /\ pc = "main"
    /\ ~(~update /\ ~sync /\ ~clean)
    /\ pc' = "loop"
    /\ i' = 1
    /\ deleted_tracks' = <<>>
    /\ UNCHANGED <<options, world, d>>

\* tqdm_tracks: if track.Kind != 1: continue
SkipNonFile ==
    /\ pc = "loop"
    /\ i <= Len(tracks)
    /\ tracks[i].Kind # 1
    /\ i' = i + 1
    /\ UNCHANGED <<options, world, pc, d, deleted_tracks>>

MissingFile_immediate ==
    /\ pc = "loop"
    /\ i <= Len(tracks)
    /\ tracks[i].Kind = 1
    /\ tracks[i].Location = ""
    /\ log' = [log EXCEPT ![i] = Append(@, LogRec("file does not exist", "", 0, 0))]
    /\ IF clean /\ should_delete
       THEN /\ calls' = [calls EXCEPT ![i].Delete = @ + 1]
            /\ library' = library \ {i}
       ELSE UNCHANGED <<calls, library>>
    /\ i' = i + 1
    /\ UNCHANGED <<options, tracks, files, faults, tracks0, files0, tags, pc, d,
                   deleted_tracks>>

\* if track.Location == "": warning; deleted_tracks += [track]; continue
MissingFile ==
    /\ pc = "loop"
    /\ i <= Len(tracks)
    /\ tracks[i].Kind = 1
    /\ tracks[i].Location = ""
    /\ log' = [log EXCEPT ![i] = Append(@, LogRec("file does not exist", "", 0, 0))]
    /\ deleted_tracks' = Append(deleted_tracks, i)
    /\ i' = i + 1
    /\ UNCHANGED <<options, tracks, files, faults, tracks0, files0, library, tags,
                   calls, pc, d>>

\* The loop body for a file track with a Location: the try block.
ProcessTrack ==
    /\ pc = "loop"
    /\ i <= Len(tracks)
    /\ tracks[i].Kind = 1
    /\ tracks[i].Location # ""
    /\ LET w == try_block(Song(i))
       IN  /\ tracks' = [tracks EXCEPT ![i] = w.track]
           /\ files' = [files EXCEPT ![i] = w.file]
           /\ tags' = [tags EXCEPT ![i] = w.tag]
           /\ log' = [log EXCEPT ![i] = w.log]
           /\ calls' = [calls EXCEPT ![i] = w.calls]
           /\ pc' = after_try(w)
    /\ i' = i + 1
    /\ UNCHANGED <<options, faults, tracks0, files0, library, d, deleted_tracks>>

\* The for loop of tqdm_tracks is exhausted.
LoopDone ==
    /\ pc = "loop"
    /\ i > Len(tracks)
    /\ pc' = after_loop
    /\ d' = 1
    /\ UNCHANGED <<options, world, i, deleted_tracks>>

\* for track in deleted_tracks: log 'deleting'; if not dry: track.Delete()
DeleteTrack ==
    /\ pc = "clean"
    /\ d <= Len(deleted_tracks)
    /\ LET k == deleted_tracks[d]
       IN  /\ log' = [log EXCEPT ![k] = Append(@, LogRec("deleting", "", 0, 0))]
           /\ IF should_delete
              THEN /\ calls' = [calls EXCEPT ![k].Delete = @ + 1]
                   /\ library' = library \ {k}
              ELSE UNCHANGED <<calls, library>>
    /\ d' = d + 1
    /\ UNCHANGED <<options, tracks, files, faults, tracks0, files0, tags, pc, i,
                   deleted_tracks>>

CleanDone ==
    /\ pc = "clean"
    /\ d > Len(deleted_tracks)
    /\ pc' = "done"
    /\ UNCHANGED <<options, world, i, d, deleted_tracks>>

Next ==
    \/ EarlyReturn
    \/ EnterLoop
    \/ SkipNonFile
    \/ MissingFile
    \/ ProcessTrack
    \/ LoopDone
    \/ DeleteTrack
    \/ CleanDone

Spec == Init /\ [][Next]_vars

SpecTrack == InitTrack /\ [][Next]_vars

(***************************************************************************)
(* Vocabulary of the properties                                            *)
(***************************************************************************)

N == Len(tracks0)

\* The loop body has run for track k.
Visited(k) == pc # "main" /\ (pc = "done" => ~(~update /\ ~sync /\ ~clean)) /\ i > k

\* Track k is a file track with a Location: the try block is what runs on it.
Located(k) == tracks0[k].Kind = 1 /\ tracks0[k].Location # ""

\* Track k is a file track whose Location is empty.
Missing(k) == tracks0[k].Kind = 1 /\ tracks0[k].Location = ""

\* The star ratings and the time difference the run started with.
LibraryStar(k) == tracks0[k].Rating \div 20
TagStar(k) == get_tag_rating(files0[k])
Delta0(k) == files0[k].mtime - tracks0[k].PlayedDate
IsConflict(k) ==
    LibraryStar(k) # 0 /\ TagStar(k) # 0 /\ LibraryStar(k) # TagStar(k)

\* The rating decisions logged for track k: SetLibrary(star) is a record of
\* side "iTunes", SetTag(star) one of side "tag"; no record is NoOp.
DecisionRecs(k) == {n \in DOMAIN log[k] : log[k][n].side \in {"iTunes", "tag"}}
LoggedDecision(k) ==
    IF DecisionRecs(k) = {} THEN <<"NoOp", 0>>
    ELSE LET n == CHOOSE m \in DecisionRecs(k) : TRUE
         IN  <<IF log[k][n].side = "iTunes" THEN "SetLibrary" ELSE "SetTag",
               log[k][n].new>>

\* The decision the reconcile rules prescribe for the ratings, timestamps and
\* force policy the run started with.
Expected(k) ==
    IF LibraryStar(k) = TagStar(k) THEN <<"NoOp", 0>>
    ELSE IF LibraryStar(k) = 0 THEN <<"SetLibrary", TagStar(k)>>
    ELSE IF TagStar(k) = 0 THEN <<"SetTag", LibraryStar(k)>>
    ELSE IF force_rating = "tag" THEN <<"SetLibrary", TagStar(k)>>
    ELSE IF force_rating = "itunes" THEN <<"SetTag", LibraryStar(k)>>
    ELSE IF Delta0(k) < TicksPerSecond THEN <<"SetTag", LibraryStar(k)>>
    ELSE <<"SetLibrary", TagStar(k)>>

\* Nothing keeps sync_rating from reading both ratings of track k: the tag
\* loads and the library rating is a multiple of 20.
Readable(k) ==
    /\ Located(k)
    /\ faults[k] \notin {"load", "notag"}
    /\ tracks0[k].Rating % 20 = 0

\* sync_rating reaches its decision for track k in a run where nothing is
\* refreshed before it: also the file's mtime can be read when it is needed.
Decidable(k) ==
    /\ Readable(k)
    /\ (IsConflict(k) /\ force_rating = "None") => faults[k] # "mtime"

\* The refresh that runs before the reconcile step does not raise.
RefreshPasses(k) == ~(update /\ ~dry /\ faults[k] = "refresh")

TagWritten(k) == calls[k].popm > 0
LibraryWritten(k) == calls[k].Rating > 0

(***************************************************************************)
(* C1                                                                      *)
(***************************************************************************)

C2_UnratedSideIsFilled ==
    \A k \in 1 .. N :
        (Visited(k) /\ ~dry /\ sync /\ Readable(k) /\ faults[k] \in {"none", "mtime"}
            /\ tracks0[k].Rating \in {0, 20, 40, 60, 80, 100}) =>
            /\ (TagStar(k) # 0 /\ LibraryStar(k) = 0) =>
                  /\ tracks[k].Rating = TagStar(k) * 20
                  /\ ~TagWritten(k)
                  /\ tags[k].popularities = files0[k].popularities
                  /\ files[k].popularities = files0[k].popularities
                  /\ tracks[k].Rating \div 20 = get_tag_rating(tags[k])
            /\ (TagStar(k) = 0 /\ LibraryStar(k) # 0) =>
                  /\ get_tag_rating(tags[k]) = LibraryStar(k)
                  /\ ~LibraryWritten(k)
                  /\ tracks[k].Rating = tracks0[k].Rating
                  /\ tracks[k].Rating \div 20 = get_tag_rating(tags[k])

\* C2 witness: a non-dry run under force policy "tag" has filled the empty
\* tag of a 5-star library track.
C2_Witness ==
    /\ ~dry /\ sync /\ force_rating = "tag" /\ pc = "done"
    /\ \E k \in 1 .. N :
          /\ Located(k) /\ tracks0[k].Rating = 100 /\ files0[k].popularities = {}
          /\ tags[k].popularities = {255}

(***************************************************************************)
(* C3                                                                      *)
(***************************************************************************)

\* C3: for a conflict with no force policy the 1-second threshold on
\* delta = file mtime - last-played time decides alone: delta < 1 s gives
\* SetTag(libraryStar) and the library is not written; delta >= 1 s, exactly
\* 1 s included, gives SetLibrary(tagStar) and the tag is not written.
C3_ThresholdDecides ==
    \A k \in 1 .. N :
        (Visited(k) /\ sync /\ Readable(k) /\ faults[k] = "none"
            /\ IsConflict(k) /\ force_rating = "None") =>
            /\ Delta0(k) < TicksPerSecond =>
                  /\ LoggedDecision(k) = <<"SetTag", LibraryStar(k)>>
                  /\ ~LibraryWritten(k)
                  /\ tracks[k].Rating = tracks0[k].Rating
                  /\ ~dry => get_tag_rating(tags[k]) = LibraryStar(k)
            /\ Delta0(k) >= TicksPerSecond =>
                  /\ LoggedDecision(k) = <<"SetLibrary", TagStar(k)>>
                  /\ ~TagWritten(k)
                  /\ tags[k].popularities = files0[k].popularities
                  /\ ~dry => tracks[k].Rating = TagStar(k) * 20

\* C3 witness: a conflict whose delta is exactly one second was decided
\* SetLibrary without a force policy.
C3_Witness ==
    /\ force_rating = "None" /\ sync /\ pc = "done"
    /\ \E k \in 1 .. N :
          /\ Located(k) /\ IsConflict(k) /\ faults[k] = "none"
          /\ Delta0(k) = TicksPerSecond
          /\ LoggedDecision(k) = <<"SetLibrary", TagStar(k)>>

(***************************************************************************)
(* C4                                                                      *)
(***************************************************************************)

\* The file's mtime is earlier than the last-played time by at least 1 s.
FileOlderByASecond(k) ==
    files0[k].mtime + TicksPerSecond <= tracks0[k].PlayedDate

\* C4 as claimed: for a conflict with no force policy, when the file's mtime
\* is earlier than the last-played time by at least 1 second, the decision is
\* SetLibrary(tagStar) and the tag is not written.
C4_Original ==
    \A k \in 1 .. N :
        (Visited(k) /\ sync /\ Readable(k) /\ faults[k] = "none"
            /\ IsConflict(k) /\ force_rating = "None" /\ FileOlderByASecond(k)) =>
            /\ LoggedDecision(k) = <<"SetLibrary", TagStar(k)>>
            /\ ~TagWritten(k)

\* C4 amended: for a conflict with no force policy, when the file's mtime is
\* earlier than the last-played time by at least 1 second, delta is below the
\* threshold and the library wins: the decision is SetTag(libraryStar), and
\* the library is not written.
C4_FileOlderGivesSetTag ==
    \A k \in 1 .. N :
        (Visited(k) /\ sync /\ Readable(k) /\ faults[k] = "none"
            /\ IsConflict(k) /\ force_rating = "None" /\ FileOlderByASecond(k)) =>
            /\ LoggedDecision(k) = <<"SetTag", LibraryStar(k)>>
            /\ ~LibraryWritten(k)
            /\ tracks[k].Rating = tracks0[k].Rating

\* C4 witness: reconcile(2, 4, t0, t0 + 2 s, None) was decided SetTag(2).
C4_Witness ==
    /\ force_rating = "None" /\ sync /\ pc = "done"
    /\ \E k \in 1 .. N :
          /\ Located(k) /\ faults[k] = "none"
          /\ LibraryStar(k) = 2 /\ TagStar(k) = 4
          /\ tracks0[k].PlayedDate = files0[k].mtime + 2 * TicksPerSecond
          /\ LoggedDecision(k) = <<"SetTag", 2>>

(***************************************************************************)
(* C5                                                                      *)
(***************************************************************************)

\* C5: for a conflict a force policy is honoured whatever the timestamps are,
\* and without reading them: 'tag' gives SetLibrary(tagStar), 'itunes' gives
\* SetTag(libraryStar).
C5_ForceIsUnconditional ==
    \A k \in 1 .. N :
        (Visited(k) /\ sync /\ Readable(k) /\ faults[k] \in {"none", "mtime"}
            /\ IsConflict(k)) =>
            /\ force_rating = "tag" =>
                  /\ LoggedDecision(k) = <<"SetLibrary", TagStar(k)>>
                  /\ ~TagWritten(k)
                  /\ ~dry => tracks[k].Rating = TagStar(k) * 20
            /\ force_rating = "itunes" =>
                  /\ LoggedDecision(k) = <<"SetTag", LibraryStar(k)>>
                  /\ ~LibraryWritten(k)
                  /\ ~dry => get_tag_rating(tags[k]) = LibraryStar(k)

\* C5 witness: under policy 'itunes' a conflict whose file is newer than the
\* last play by more than a second, and whose mtime cannot even be read, was
\* decided SetTag.
C5_Witness ==
    /\ force_rating = "itunes" /\ sync /\ pc = "done"
    /\ \E k \in 1 .. N :
          /\ Located(k) /\ IsConflict(k) /\ faults[k] = "mtime"
          /\ Delta0(k) > TicksPerSecond
          /\ LoggedDecision(k) = <<"SetTag", LibraryStar(k)>>

(***************************************************************************)
(* C6                                                                      *)
(***************************************************************************)

\* Nothing was run on, or written for, track k.
Untouched(k) ==
    /\ calls[k].UpdateInfoFromFile = 0
    /\ calls[k].Rating = 0
    /\ calls[k].popm = 0
    /\ calls[k].save = 0
    /\ DecisionRecs(k) = {}
    /\ ~tags[k].loaded
    /\ tracks[k] = tracks0[k]
    /\ files[k] = files0[k]

\* C6: on a file track whose Location is empty no command is ever run; with
\* clean on (and dry off) its library entry has been removed exactly once
\* when the run ends; with clean off it is never deleted and nothing about
\* it is written.  A track with a Location is never deleted.
C6_MissingFileTracks ==
    \A k \in 1 .. N :
        /\ Missing(k) =>
              /\ Untouched(k)
              /\ calls[k].Delete <= 1
              /\ (pc = "done" /\ clean /\ ~dry) =>
                    (calls[k].Delete = 1 /\ k \notin library)
              /\ ~clean => (calls[k].Delete = 0 /\ k \in library)
        /\ ~Missing(k) => (calls[k].Delete = 0 /\ k \in library)

\* C6 witness: a finished non-dry clean run has deleted a track with an empty
\* Location exactly once and kept a track that has a Location.
C6_Witness ==
    /\ pc = "done" /\ clean /\ ~dry
    /\ \E k \in 1 .. N : Missing(k) /\ calls[k].Delete = 1 /\ k \notin library
    /\ \E k \in 1 .. N : Located(k) /\ k \in library

(***************************************************************************)
(* C7                                                                      *)
(***************************************************************************)

\* Processing track k failed: an exception reached main's except clause, or
\* sync_tag could not load the file.
Failed(k) ==
    \E n \in DOMAIN log[k] : log[k][n].msg \in {"exception", "could not load file"}

FieldsMatch(k) == tracks0[k].Artist = files0[k].artist

\* C8 as claimed: the update command is a no-op when the tag's fields all
\* equal the library track's: UpdateInfoFromFile is triggered only when at
\* least one field differs and dry-run is off.
C8_Original ==
    \A k \in 1 .. N :
        calls[k].UpdateInfoFromFile > 0 => (~FieldsMatch(k) /\ ~dry)

\* C8 amended: the update command compares nothing: UpdateInfoFromFile is
\* triggered exactly once for every visited file track with a Location when
\* update is on and dry-run is off, whether or not the fields match, and
\* never otherwise.
C8_RefreshIsUnconditional ==
    \A k \in 1 .. N :
        calls[k].UpdateInfoFromFile =
            (IF Visited(k) /\ Located(k) /\ update /\ ~dry THEN 1 ELSE 0)

\* C8 witness: a track whose fields match the tag's was refreshed.
C8_Witness ==
    \E k \in 1 .. N :
        /\ Located(k) /\ FieldsMatch(k) /\ faults[k] = "none"
        /\ calls[k].UpdateInfoFromFile = 1

(***************************************************************************)
(* C9                                                                      *)
(***************************************************************************)

\* C9: deletion is deferred: no Delete is called, and the collection keeps
\* its size and indexing, until the per-track loop has visited every track;
\* so every refresh and reconcile precedes the first deletion.
C9_DeletionIsDeferred ==
    /\ (pc \in {"main", "loop"}) =>
          /\ library = 1 .. N
          /\ \A k \in 1 .. N : calls[k].Delete = 0
    /\ (\E k \in 1 .. N : calls[k].Delete > 0 \/ k \notin library) =>
          /\ pc \in {"clean", "done"}
          /\ i = N + 1

\* C9 witness: the first track has been deleted, after a later track was
\* refreshed and reconciled.
C9_Witness ==
    /\ N >= 2
    /\ calls[1].Delete = 1 /\ 1 \notin library
    /\ calls[2].UpdateInfoFromFile = 1 /\ DecisionRecs(2) # {}

(***************************************************************************)
(* C10                                                                     *)
(***************************************************************************)

\* C10: tag.save() is called at most once per track, and exactly when the
\* reconcile step mutated the tag's rating in memory (decision SetTag with
\* dry-run off); NoOp and SetLibrary decisions never save; no track has both
\* its library Rating and its tag written.
C10_DirtyTracking ==
    \A k \in 1 .. N :
        /\ calls[k].save <= 1
        /\ calls[k].save = 1 <=>
              (TagWritten(k) /\ LoggedDecision(k)[1] = "SetTag" /\ ~dry)
        /\ TagWritten(k) =>
              (tags[k].popularities # files0[k].popularities
                  /\ LoggedDecision(k)[1] = "SetTag")
        /\ LoggedDecision(k)[1] \in {"NoOp", "SetLibrary"} =>
              (calls[k].save = 0 /\ files[k] = files0[k])
        /\ ~(LibraryWritten(k) /\ TagWritten(k))
        /\ ~(LibraryWritten(k) /\ calls[k].save > 0)

\* C10 witness: one run saved the tag of a SetTag track once and wrote the
\* library Rating of a SetLibrary track without saving its tag.
C10_Witness ==
    /\ pc = "done"
    /\ \E k \in 1 .. N :
          /\ LoggedDecision(k)[1] = "SetTag" /\ calls[k].save = 1
          /\ files[k].popularities = tags[k].popularities
    /\ \E k \in 1 .. N :
          /\ LoggedDecision(k)[1] = "SetLibrary" /\ LibraryWritten(k)
          /\ calls[k].save = 0

====
